---- MODULE Spec2Model ----
(***************************************************************************)
(* Import resolution and dependency graph engine of codex-lab:             *)
(* import_graph_builder.py (graph), project_doc_gen.py (grouped listing),  *)
(* import_map.py (import extraction for the listing).                      *)
(*                                                                         *)
(* A Python str is a sequence of one-character strings, a pathlib path is  *)
(* the sequence of its parts, a set stays a set and a dict is the sequence *)
(* of its <<key, value>> pairs in insertion order.                         *)
(***************************************************************************)
EXTENDS Integers, Sequences, FiniteSets, TLC

VARIABLES
    pc,             \* position of the run
    node,           \* the ast node under classification (classifier runs)
    module,         \* the module string parse_imports made of the node
    local_modules,  \* the local module index
    mcolor,         \* import_graph_builder.main: colour picked by the cascade
    groups,         \* project_doc_gen.format_markdown: the three group lists
    fs,             \* the file system under root: relative parts -> source
    py_files,       \* find_py_files' result, in discovery order
    tree,           \* the import tree, a dict in insertion order
    idx,            \* position of the running loop
    mod,            \* collect_local_modules: module_name of the last file
    root_node,      \* import_graph_builder.main: id of the red File node
    added_nodes,    \* import_graph_builder.main: ids with a node statement
    dot_body,       \* the statements given to the Digraph, in order
    md,             \* project_doc_gen.main: the text written to the output
    args,           \* code_stats.main: the parsed arguments (path, output)
    total,          \* code_stats.main: the counters total_lines .. total_from
    longest_file,   \* code_stats.main: path of the longest file so far
    longest_lines,  \* code_stats.main: its line count
    report,         \* code_stats.main: the report dict
    out,            \* code_stats.main: what was dumped to the output file
    parsed,         \* project_map.main: the parsed arguments
    argv,           \* project_map.main: the argument list given to the tool
    env,            \* the environment of a project_map run
    exit_code,      \* the exit status of the project_map process
    steps           \* ci_runner.main: the steps run so far, with their result

vars == <<pc, node, module, local_modules, mcolor, groups, fs, py_files, tree,
          idx, mod, root_node, added_nodes, dot_body, md, args, total,
          longest_file, longest_lines, report, out, parsed, argv, env,
          exit_code, steps>>

classifier_vars == <<node, module, mcolor, groups>>
pipeline_vars ==
    <<fs, py_files, tree, idx, mod, root_node, added_nodes, dot_body, md>>
stats_vars == <<args, total, longest_file, longest_lines, report, out>>
cli_vars == <<parsed, argv, env, exit_code, steps>>

(***************************************************************************)
(* Bounds                                                                  *)
(***************************************************************************)
MaxLevel == 2       \* largest relative-import level enumerated
MaxSegs == 2        \* longest dotted name enumerated exhaustively
MaxIndex == 2       \* largest enumerated local module index
MaxFiles == 3       \* most files of an enumerated project

(***************************************************************************)
(* Names used by the scenarios                                             *)
(***************************************************************************)
None == "None"      \* an unbound name / a missing value
NoModule == <<>>    \* ast.ImportFrom.module is None (`from . import x`)
DOT == "."
s_os == <<"o", "s">>
s_path == <<"p", "a", "t", "h">>
s_pkg == <<"p", "k", "g">>
s_sub == <<"s", "u", "b">>
s_mod == <<"m", "o", "d">>
s_helper == <<"h", "e", "l", "p", "e", "r">>
s_pkgsubmod == <<"p", "k", "g", "s", "u", "b", "m", "o", "d">>
s_numpy == <<"n", "u", "m", "p", "y">>
s_sibling == <<"s", "i", "b", "l", "i", "n", "g">>
s_a == <<"a">>
s_b == <<"b">>
s_py == <<"p", "y">>
s_tests == <<"t", "e", "s", "t", "s">>
s_proj == <<"p", "r", "o", "j">>
s_pycache == <<"_", "_", "p", "y", "c", "a", "c", "h", "e", "_", "_">>
s_venv == <<".", "v", "e", "n", "v">>
s_venvdir == <<"v", "e", "n", "v">>
PY == <<".", "p", "y">>
init_py == <<"_", "_", "i", "n", "i", "t", "_", "_", ".", "p", "y">>
main_py == <<"m", "a", "i", "n", ".", "p", "y">>

\* sys.stdlib_module_names, restricted to the identifiers of the model
stdlib_module_names == {s_os, s_venvdir}

(***************************************************************************)
(* str operations                                                          *)
(***************************************************************************)
\* "." * n
Dots(n) == [i \in 1..n |-> DOT]

\* s.startswith(prefix)
startswith(s, prefix) ==
    /\ Len(prefix) <= Len(s)
    /\ SubSeq(s, 1, Len(prefix)) = prefix

\* s.lstrip(".")
RECURSIVE lstrip(_)
lstrip(s) ==
    IF s # <<>> /\ Head(s) = DOT THEN lstrip(Tail(s)) ELSE s

\* s.split("."): the maximal dot-free pieces, empty pieces included
RECURSIVE split(_)
split(s) ==
    IF \A i \in 1..Len(s) : s[i] # DOT
    THEN <<s>>
    ELSE LET i == CHOOSE k \in 1..Len(s) :
                     s[k] = DOT /\ \A j \in 1..(k - 1) : s[j] # DOT
         IN <<SubSeq(s, 1, i - 1)>> \o split(SubSeq(s, i + 1, Len(s)))

\* ".".join(parts)
RECURSIVE join(_)
join(parts) ==
    IF parts = <<>> THEN <<>>
    ELSE IF Len(parts) = 1 THEN parts[1]
    ELSE parts[1] \o <<DOT>> \o join(Tail(parts))

(***************************************************************************)
(* Import nodes and parse_imports' encoding of them                        *)
(***************************************************************************)
\* dotted names of 1..n identifiers drawn from ids
DottedNames(ids, n) ==
    { join(segs) : segs \in UNION { [1..k -> ids] : k \in 1..n } }

\* ast.alias(name, asname); asname is NoAlias when there is no `as`
NoAlias == <<>>
Alias(name, asname) == [name |-> name, asname |-> asname]

\* ast.Import(names) and ast.ImportFrom(module, names, level)
ImportNode(names) ==
    [type |-> "Import", level |-> 0, module |-> NoModule, names |-> names]
ImportFromNode(level, m, names) ==
    [type |-> "ImportFrom", level |-> level, module |-> m, names |-> names]

\* the module strings parse_imports adds for one node: alias.name for every
\* alias of an Import, "." * node.level + (node.module or "") for an ImportFrom
ModuleStrings(n) ==
    IF n.type = "Import"
    THEN { n.names[i].name : i \in DOMAIN n.names }
    ELSE { Dots(n.level) \o (IF n.module = NoModule THEN <<>> ELSE n.module) }

(***************************************************************************)
(* Classification                                                          *)
(***************************************************************************)
is_local_nodot(m, locals) ==
    \/ startswith(m, <<DOT>>)
    \/ \E local \in locals : m = local \/ startswith(m, local)

is_local_norel(m, locals) ==
    \E local \in locals : m = local \/ startswith(m, local \o <<DOT>>)

is_local(m, locals) ==
    \/ startswith(m, <<DOT>>)
    \/ \E local \in locals : m = local \/ startswith(m, local \o <<DOT>>)

is_stdlib(m) ==
    LET base == split(lstrip(m))[1]
    IN base \in stdlib_module_names

\* import_graph_builder.main: the cascade that picks a Module node's colour
ModuleColor_stdfirst(m, locals) ==
    IF is_stdlib(m) THEN "gray"
    ELSE IF is_local(m, locals) THEN "blue"
    ELSE "green"

ModuleColor(m, locals) ==
    IF is_local(m, locals) THEN "blue"
    ELSE IF is_stdlib(m) THEN "gray"
    ELSE "green"

\* project_doc_gen.format_markdown: the cascade that picks the group
GroupOf_noelse(m, locals) ==
    IF is_local(m, locals) THEN "local"
    ELSE IF is_stdlib(m) THEN "stdlib"
    ELSE "unbound"

GroupOf(m, locals) ==
    IF is_local(m, locals) THEN "local"
    ELSE IF is_stdlib(m) THEN "stdlib"
    ELSE "external"

GroupNames == {"stdlib", "external", "local"}
EmptyGroups == [g \in GroupNames |-> <<>>]

\* groups[group].append(entry) (a name that is no key of the dict stores nothing)
AppendToGroup(gs, g, entry) ==
    IF g \in DOMAIN gs THEN [gs EXCEPT ![g] = Append(@, entry)] ELSE gs

\* the pipeline variables while only the classifier runs
PipelineIdle ==
    /\ fs = <<>>
    /\ py_files = <<>>
    /\ tree = <<>>
    /\ idx = 0
    /\ mod = <<>>
    /\ root_node = <<>>
    /\ added_nodes = {}
    /\ dot_body = <<>>
    /\ md = <<>>

\* the variables of code_stats and project_map while another tool runs
StatsIdle ==
    /\ args = None
    /\ total = None
    /\ longest_file = <<>>
    /\ longest_lines = 0
    /\ report = None
    /\ out = None

CliIdle ==
    /\ parsed = None
    /\ argv = <<>>
    /\ env = None
    /\ exit_code = None
    /\ steps = <<>>

(***************************************************************************)
(* Classifier runs: one import node against one local module index         *)
(***************************************************************************)
ClassifyIdents == {s_os, s_pkg, s_sub}

ClassifyNodes ==
    LET names == DottedNames(ClassifyIdents, MaxSegs)
                     \cup {join(<<s_pkg, s_sub, s_mod, s_helper>>), s_pkgsubmod, s_numpy,
                           join(<<s_os, s_path>>)}
    IN { ImportNode(<<Alias(n, NoAlias)>>) : n \in names }
       \cup { ImportFromNode(0, n, <<Alias(s_helper, NoAlias)>>) : n \in names }
       \cup { ImportFromNode(l, n, <<Alias(s_helper, NoAlias)>>) :
                  l \in 1..MaxLevel,
                  n \in DottedNames(ClassifyIdents, 1) \cup {NoModule, s_sibling} }

LocalPool ==
    DottedNames(ClassifyIdents, 1)
        \cup {join(<<s_pkg, s_sub>>), join(<<s_os, s_path>>), join(<<s_os, s_pkg>>),
              join(<<s_pkg, s_sub, s_mod>>)}

InitClassify ==
    /\ pc = "parse"
    /\ node \in ClassifyNodes
    /\ module = <<>>
    /\ local_modules \in { L \in SUBSET LocalPool : Cardinality(L) <= MaxIndex }
    /\ mcolor = None
    /\ groups = EmptyGroups
    /\ PipelineIdle
    /\ StatsIdle
    /\ CliIdle

\* parse_imports turns the node into a module string
ParseNode ==
    /\ pc = "parse"
    /\ module' \in ModuleStrings(node)
    /\ pc' = "graph"
    /\ UNCHANGED <<node, local_modules, mcolor, groups, pipeline_vars>>
    /\ UNCHANGED <<stats_vars, cli_vars>>

\* import_graph_builder.main, the body of `if module not in added_nodes`
GraphCascade ==
    /\ pc = "graph"
    /\ mcolor' = ModuleColor(module, local_modules)
    /\ pc' = "doc"
    /\ UNCHANGED <<node, module, local_modules, groups, pipeline_vars>>
    /\ UNCHANGED <<stats_vars, cli_vars>>

\* project_doc_gen.format_markdown, one turn of the loop over imports.items()
DocCascade ==
    /\ pc = "doc"
    /\ groups' = AppendToGroup(groups, GroupOf(module, local_modules), module)
    /\ pc' = "classified"
    /\ UNCHANGED <<node, module, local_modules, mcolor, pipeline_vars>>
    /\ UNCHANGED <<stats_vars, cli_vars>>

NextClassify == ParseNode \/ GraphCascade \/ DocCascade

SpecClassify == InitClassify /\ [][NextClassify]_vars

(***************************************************************************)
(* Properties of the classifier                                            *)
(***************************************************************************)
Range(f) == { f[i] : i \in DOMAIN f }

\* the labels the two tools have given the module string
GraphLabels ==
    {l \in {"Local", "StdLib", "External"} :
        \/ l = "Local" /\ mcolor = "blue"
        \/ l = "StdLib" /\ mcolor = "gray"
        \/ l = "External" /\ mcolor = "green"}

DocLabels ==
    {l \in {"Local", "StdLib", "External"} :
        \/ l = "Local" /\ module \in Range(groups["local"])
        \/ l = "StdLib" /\ module \in Range(groups["stdlib"])
        \/ l = "External" /\ module \in Range(groups["external"])}

\* some entry e of the index has m = e, or m starts with e followed by a dot
MatchesIndex(m, L) ==
    \E e \in L :
        /\ Len(e) <= Len(m)
        /\ \A i \in 1..Len(e) : m[i] = e[i]
        /\ Len(m) = Len(e) \/ m[Len(e) + 1] = DOT

\* the characters of m before its first dot
LeadingSegment(m) ==
    LET dots == {i \in 1..Len(m) : m[i] = DOT}
    IN IF dots = {} THEN m
       ELSE SubSeq(m, 1, (CHOOSE i \in dots : \A j \in dots : i <= j) - 1)

\* C1: the cascade gives every module string exactly one of the labels
\* Local / StdLib / External, in the graph builder and in the grouped
\* listing: never none, never two.
C1_ExactlyOneLabel ==
    pc = "classified" =>
        /\ Cardinality(GraphLabels) = 1
        /\ Cardinality(DocLabels) = 1
        /\ Len(groups["local"]) + Len(groups["stdlib"]) + Len(groups["external"]) = 1

C1_Witness ==
    /\ pc = "classified"
    /\ module = s_numpy
    /\ local_modules = {}
    /\ GraphLabels = {"External"}
    /\ DocLabels = {"External"}

\* C2: a from-import with level > 0 is Local for every local module index,
\* the empty one included, also when the dotted part names a
\* standard-library module.
C2_RelativeIsLocal ==
    (pc = "classified" /\ node.type = "ImportFrom" /\ node.level > 0) =>
        /\ startswith(module, Dots(node.level))
        /\ GraphLabels = {"Local"}
        /\ DocLabels = {"Local"}

C2_Witness ==
    /\ pc = "classified"
    /\ node = ImportFromNode(1, s_os, <<Alias(s_helper, NoAlias)>>)
    /\ module = <<DOT>> \o s_os
    /\ local_modules = {}
    /\ GraphLabels = {"Local"}
    /\ DocLabels = {"Local"}

\* C3: an absolute module string m is Local exactly when some entry e of
\* the index has m = e or m starts with e followed by a dot;
\* pkg.sub.mod.helper is Local whenever pkg.sub.mod is in the index, and
\* pkgsubmod is not Local merely because pkg is in the index.
C3_DescendantPrefixRule ==
    (pc = "classified" /\ node.level = 0) =>
        /\ ("Local" \in GraphLabels) <=> MatchesIndex(module, local_modules)
        /\ ("Local" \in DocLabels) <=> MatchesIndex(module, local_modules)
        /\ (module = join(<<s_pkg, s_sub, s_mod, s_helper>>)
                /\ join(<<s_pkg, s_sub, s_mod>>) \in local_modules)
             => GraphLabels = {"Local"}
        /\ (module = s_pkgsubmod /\ local_modules = {s_pkg})
             => "Local" \notin GraphLabels \cup DocLabels

C3_Witness ==
    /\ pc = "classified"
    /\ module = s_pkgsubmod
    /\ local_modules = {s_pkg}
    /\ GraphLabels = {"External"}

\* C4: precedence Local, then StdLib, then External: a module matching the
\* index is Local even when its leading segment is a standard-library name
\* (index entry os makes os and os.path Local); a non-local module is
\* StdLib exactly when its first dotted segment is in the standard-library
\* set; everything else is External.
C4_Precedence ==
    pc = "classified" =>
        LET label == IF node.level > 0 \/ MatchesIndex(module, local_modules)
                     THEN "Local"
                     ELSE IF LeadingSegment(module) \in stdlib_module_names
                     THEN "StdLib"
                     ELSE "External"
        IN GraphLabels = {label} /\ DocLabels = {label}

C4_Witness ==
    /\ pc = "classified"
    /\ module = join(<<s_os, s_path>>)
    /\ local_modules = {s_os}
    /\ GraphLabels = {"Local"}
    /\ DocLabels = {"Local"}

(***************************************************************************)
(* Paths (pathlib): a path is the sequence of its parts                    *)
(***************************************************************************)
\* path.relative_to(root)
relative_to(path, root) == SubSeq(path, Len(root) + 1, Len(path))

\* PurePath.suffix: from the last dot of the name on, when that dot is
\* neither the first nor the last character of the name
suffix(name) ==
    LET dots == {i \in 1..Len(name) : name[i] = DOT}
        i == IF dots = {} THEN 0 ELSE CHOOSE k \in dots : \A j \in dots : j <= k
    IN IF 1 < i /\ i < Len(name) THEN SubSeq(name, i, Len(name)) ELSE <<>>

\* rel.with_suffix("")
with_suffix_empty(rel) ==
    LET name == rel[Len(rel)]
    IN SubSeq(rel, 1, Len(rel) - 1)
           \o <<SubSeq(name, 1, Len(name) - Len(suffix(name)))>>

\* str(path) of a relative path: the parts joined by "/"
RECURSIVE path_str(_)
path_str(parts) ==
    IF parts = <<>> THEN <<>>
    ELSE IF Len(parts) = 1 THEN parts[1]
    ELSE parts[1] \o <<"/">> \o path_str(Tail(parts))

module_name_keepinit(path, root) ==
    join(with_suffix_empty(relative_to(path, root)))

module_name(path, root) ==
    LET rel == relative_to(path, root)
        parts == IF rel[Len(rel)] = init_py
                 THEN SubSeq(rel, 1, Len(rel) - 1)
                 ELSE with_suffix_empty(rel)
    IN join(parts)

(***************************************************************************)
(* sorted() on str: lexicographic by code point                            *)
(***************************************************************************)
\* the characters of the model in code point order
CodePoints ==
    <<".", "/", "_", "a", "b", "c", "d", "e", "g", "h", "i", "j", "k", "l",
      "m", "n", "o", "p", "r", "s", "t", "u", "v", "y">>

ord(c) == CHOOSE i \in 1..Len(CodePoints) : CodePoints[i] = c

RECURSIVE str_less(_, _)
str_less(s, t) ==
    IF t = <<>> THEN FALSE
    ELSE IF s = <<>> THEN TRUE
    ELSE IF Head(s) = Head(t) THEN str_less(Tail(s), Tail(t))
    ELSE ord(Head(s)) < ord(Head(t))

RECURSIVE sorted(_)
sorted(S) ==
    IF S = {} THEN <<>>
    ELSE LET least == CHOOSE x \in S : \A y \in S \ {x} : str_less(x, y)
         IN <<least>> \o sorted(S \ {least})

(***************************************************************************)
(* The file system of a run                                                *)
(***************************************************************************)
Root == << <<"/">>, s_proj >>

\* a source file: whether its bytes are valid UTF-8, and what ast.parse makes
\* of its text (decoded as UTF-8 when valid, as Latin-1 otherwise)
Src(nodes) == [status |-> "ok", nodes |-> nodes, utf8 |-> TRUE]
Broken == [status |-> "syntax_error", nodes |-> <<>>, utf8 |-> TRUE]
Latin1(nodes) == [status |-> "ok", nodes |-> nodes, utf8 |-> FALSE]

imp(name) == ImportNode(<<Alias(name, NoAlias)>>)
frm(level, m, name) == ImportFromNode(level, m, <<Alias(name, NoAlias)>>)

f_a == <<s_a \o PY>>
f_b == <<s_b \o PY>>
f_sibling == <<s_sibling \o PY>>
f_os == <<s_os \o PY>>
f_init == <<init_py>>
f_main == <<main_py>>
f_mod == <<s_pkg, s_sub, s_mod \o PY>>
f_sub_init == <<s_pkg, s_sub, init_py>>
f_hidden == <<PY>>
f_tests == <<s_tests, s_a \o PY>>

src_scenario == Src(<<imp(s_os), frm(1, s_sibling, s_helper), imp(s_numpy)>>)
src_twice == Src(<<imp(s_os), frm(0, s_os, s_path)>>)
src_a == Src(<<imp(s_a)>>)
src_a_py == Src(<<imp(join(<<s_a, s_py>>))>>)
src_pkg == Src(<<imp(s_pkg)>>)
src_dot == Src(<<frm(1, NoModule, s_helper)>>)
src_alias ==
    Src(<<ImportNode(<<Alias(s_numpy, s_py), Alias(s_os, NoAlias)>>),
          ImportFromNode(0, s_os, <<Alias(s_path, s_a), Alias(s_sub, NoAlias)>>),
          imp(s_pkg)>>)
src_empty == Src(<<>>)
src_latin1 == Latin1(<<imp(s_os)>>)

FilePool ==
    {f_a, f_b, f_sibling, f_os, f_init, f_main, f_mod, f_sub_init, f_hidden,
     f_tests}

\* the sources enumerated for each file of the pool
Sources(f) ==
    IF f = f_a THEN {src_scenario, src_twice, Broken}
    ELSE IF f = f_b THEN {src_a, src_a_py}
    ELSE IF f = f_mod THEN {src_pkg, src_dot}
    ELSE IF f = f_main THEN {src_a, src_alias}
    ELSE IF f = f_tests THEN {src_a}
    ELSE IF f = f_os THEN {src_twice}
    ELSE IF f = f_sibling THEN {src_empty, src_latin1}
    ELSE {src_empty}

Projects ==
    UNION { { p \in [D -> UNION { Sources(f) : f \in D }] :
                \A f \in D : p[f] \in Sources(f) } :
            D \in { D \in SUBSET FilePool : Cardinality(D) <= MaxFiles } }

\* every order in which a set can be listed
Perms(S) ==
    { q \in [1..Cardinality(S) -> S] :
        \A i, j \in 1..Cardinality(S) : q[i] = q[j] => i = j }

(***************************************************************************)
(* import_graph_builder                                                    *)
(***************************************************************************)
IGNORE_DIRS == {s_pycache, s_venv, s_tests}

\* find_py_files: the files rglob("*.py") yields, without those with an
\* ignored part in path.parts
find_py_files(files, root) ==
    { root \o f : f \in { g \in DOMAIN files :
        ~ \E i \in 1..Len(root \o g) : (root \o g)[i] \in IGNORE_DIRS } }

\* f.read() of a file opened with encoding="utf-8"
read_utf8(source) == IF source.utf8 THEN "text" ELSE "UnicodeDecodeError"

\* parse_imports lets every exception but SyntaxError through
parse_imports_raises(source) == read_utf8(source) = "UnicodeDecodeError"

\* parse_imports: the set of module strings of a file, empty when the
\* source does not parse
RECURSIVE walk_modules(_)
walk_modules(nodes) ==
    IF nodes = <<>> THEN {}
    ELSE ModuleStrings(Head(nodes)) \cup walk_modules(Tail(nodes))

parse_imports(source) ==
    IF source.status = "syntax_error" THEN {} ELSE walk_modules(source.nodes)

\* d[k] = v on a dict kept as a sequence of <<key, value>> in insertion order
DictSet(d, k, v) ==
    IF \E i \in 1..Len(d) : d[i][1] = k
    THEN [i \in 1..Len(d) |-> IF d[i][1] = k THEN <<k, v>> ELSE d[i]]
    ELSE Append(d, <<k, v>>)

RECURSIVE build_import_tree(_, _, _)
build_import_tree(files, paths, root) ==
    IF paths = <<>> THEN <<>>
    ELSE LET front == SubSeq(paths, 1, Len(paths) - 1)
             last == paths[Len(paths)]
             rel == relative_to(last, root)
         IN DictSet(build_import_tree(files, front, root),
                    path_str(rel), parse_imports(files[rel]))

\* build_import_tree ends with the first exception parse_imports lets through
build_import_tree_raises(files, paths, root) ==
    \E i \in DOMAIN paths :
        parse_imports_raises(files[relative_to(paths[i], root)])

NodeStmt(name, shape, color) ==
    [stmt |-> "node", name |-> name, head |-> <<>>, shape |-> shape,
     color |-> color]
EdgeStmt(tail, head) ==
    [stmt |-> "edge", name |-> tail, head |-> head, shape |-> "",
     color |-> ""]

\* the loop `for module in sorted(imports)` of main, on the registry and
\* the statement list
RECURSIVE module_loop_always(_, _, _, _, _)
module_loop_always(file_path, modules, locals, added, body) ==
    IF modules = <<>> THEN [added |-> added, body |-> body]
    ELSE LET m == Head(modules)
         IN module_loop_always(file_path, Tail(modules), locals,
                added \cup {m},
                body \o <<NodeStmt(m, "ellipse", ModuleColor(m, locals)),
                          EdgeStmt(file_path, m)>>)

RECURSIVE module_loop_edge_inside(_, _, _, _, _)
module_loop_edge_inside(file_path, modules, locals, added, body) ==
    IF modules = <<>> THEN [added |-> added, body |-> body]
    ELSE LET m == Head(modules)
         IN module_loop_edge_inside(file_path, Tail(modules), locals,
                added \cup {m},
                IF m \notin added
                THEN body \o <<NodeStmt(m, "ellipse", ModuleColor(m, locals)),
                               EdgeStmt(file_path, m)>>
                ELSE body)

RECURSIVE module_loop(_, _, _, _, _)
module_loop(file_path, modules, locals, added, body) ==
    IF modules = <<>> THEN [added |-> added, body |-> body]
    ELSE LET m == Head(modules)
             emitted == IF m \notin added
                        THEN Append(body,
                                 NodeStmt(m, "ellipse", ModuleColor(m, locals)))
                        ELSE body
         IN module_loop(file_path, Tail(modules), locals,
                added \cup {m}, Append(emitted, EdgeStmt(file_path, m)))

InitGraph ==
    /\ pc = "find"
    /\ fs \in Projects
    /\ py_files = <<>>
    /\ tree = <<>>
    /\ local_modules = {}
    /\ idx = 0
    /\ mod = <<>>
    /\ root_node = <<>>
    /\ added_nodes = {}
    /\ dot_body = <<>>
    /\ md = <<>>
    /\ node = ImportNode(<<>>)
    /\ module = <<>>
    /\ mcolor = None
    /\ groups = EmptyGroups
    /\ StatsIdle
    /\ CliIdle

\* main: py_files = find_py_files(root), in the order rglob yields them
FindPyFiles ==
    /\ pc = "find"
    /\ py_files' \in Perms(find_py_files(fs, Root))
    /\ pc' = "tree"
    /\ UNCHANGED <<fs, tree, local_modules, idx, mod, root_node, added_nodes,
                   dot_body, md, classifier_vars>>
    /\ UNCHANGED <<stats_vars, cli_vars>>

\* main: tree = build_import_tree(py_files, root); an exception out of it
\* is caught nowhere and ends the run
BuildImportTree ==
    /\ pc = "tree"
    /\ IF build_import_tree_raises(fs, py_files, Root)
       THEN /\ pc' = "aborted"
            /\ UNCHANGED <<tree, idx>>
       ELSE /\ tree' = build_import_tree(fs, py_files, Root)
            /\ idx' = 1
            /\ pc' = "collect"
    /\ UNCHANGED <<fs, py_files, local_modules, mod, root_node, added_nodes,
                   dot_body, md, classifier_vars>>
    /\ UNCHANGED <<stats_vars, cli_vars>>

\* collect_local_modules: one turn of `for p in py_files`
CollectStep ==
    /\ pc = "collect"
    /\ idx <= Len(py_files)
    /\ mod' = module_name(py_files[idx], Root)
    /\ local_modules' = IF mod' # <<>> THEN local_modules \cup {mod'}
                                       ELSE local_modules
    /\ idx' = idx + 1
    /\ UNCHANGED <<pc, fs, py_files, tree, root_node, added_nodes, dot_body,
                   md, classifier_vars>>
    /\ UNCHANGED <<stats_vars, cli_vars>>

\* main: collect_local_modules has returned; root_node is chosen and the
\* registry starts empty
StartGraph ==
    /\ pc = "collect"
    /\ idx > Len(py_files)
    /\ root_node' = IF f_main \in DOMAIN fs THEN main_py
                    ELSE IF f_init \in DOMAIN fs THEN init_py
                    ELSE <<>>
    /\ added_nodes' = {}
    /\ idx' = 1
    /\ pc' = "graph"
    /\ UNCHANGED <<fs, py_files, tree, local_modules, mod, dot_body, md,
                   classifier_vars>>
    /\ UNCHANGED <<stats_vars, cli_vars>>

\* the loop turn of a main that classifies against the names of the files
\* handled so far
GraphFile_partial_index ==
    /\ pc = "graph"
    /\ idx <= Len(tree)
    /\ LET file_path == tree[idx][1]
           imports == tree[idx][2]
           color == IF file_path = root_node THEN "red" ELSE "lightblue"
           fresh == file_path \notin added_nodes
           body1 == IF fresh
                    THEN Append(dot_body, NodeStmt(file_path, "box", color))
                    ELSE dot_body
           r == module_loop(file_path, sorted(imports),
                            { module_name(py_files[i], Root) : i \in 1..idx }
                                \ {<<>>},
                            added_nodes \cup {file_path}, body1)
       IN /\ added_nodes' = r.added
          /\ dot_body' = r.body
    /\ idx' = idx + 1
    /\ UNCHANGED <<pc, fs, py_files, tree, local_modules, mod, root_node, md,
                   classifier_vars>>
    /\ UNCHANGED <<stats_vars, cli_vars>>

\* main: one turn of `for file_path, imports in tree.items()`
GraphFile ==
    /\ pc = "graph"
    /\ idx <= Len(tree)
    /\ LET file_path == tree[idx][1]
           imports == tree[idx][2]
           color == IF file_path = root_node THEN "red" ELSE "lightblue"
           fresh == file_path \notin added_nodes
           body1 == IF fresh
                    THEN Append(dot_body, NodeStmt(file_path, "box", color))
                    ELSE dot_body
           r == module_loop(file_path, sorted(imports), local_modules,
                            added_nodes \cup {file_path}, body1)
       IN /\ added_nodes' = r.added
          /\ dot_body' = r.body
    /\ idx' = idx + 1
    /\ UNCHANGED <<pc, fs, py_files, tree, local_modules, mod, root_node, md,
                   classifier_vars>>
    /\ UNCHANGED <<stats_vars, cli_vars>>

\* main: the loop is over, dot.render
Render ==
    /\ pc = "graph"
    /\ idx > Len(tree)
    /\ pc' = "rendered"
    /\ UNCHANGED <<fs, py_files, tree, local_modules, idx, mod, root_node,
                   added_nodes, dot_body, md, classifier_vars>>
    /\ UNCHANGED <<stats_vars, cli_vars>>

NextGraph ==
    FindPyFiles \/ BuildImportTree \/ CollectStep \/ StartGraph \/ GraphFile
        \/ Render

SpecGraph == InitGraph /\ [][NextGraph]_vars

(***************************************************************************)
(* import_map.parse_imports and project_doc_gen                            *)
(***************************************************************************)
\* the None entry of a names list (no str is equal to it)
ItemNone == <<"None">>

\* the backquote character, which a TLA+ string cannot hold
BQ == "BACKQUOTE"
t_as == <<"a", "s", " ">>
t_file == <<"-", " ", "*", "*">>
t_bold == <<"*", "*">>
t_no_imports ==
    <<" ", " ", "-", " ", "(", "n", "o", " ", "i", "m", "p", "o", "r", "t",
      "s", ")">>
t_group == <<" ", " ", "-", " ", "*", "*">>
t_indent == <<" ", " ", " ", " ">>
t_import == <<"-", " ", BQ, "i", "m", "p", "o", "r", "t", " ">>
t_tick == <<BQ>>
t_module == <<"-", " ", BQ>>
t_colon == <<BQ, ":">>
t_name == <<" ", " ", "-", " ">>
t_none == <<"N", "o", " ", "P", "y", "t", "h", "o", "n", " ", "f", "i", "l",
            "e", "s", " ", "f", "o", "u", "n", "d", ".">>
NL == "\n"

GroupText(g) ==
    IF g = "stdlib" THEN <<"s", "t", "d", "l", "i", "b">>
    ELSE IF g = "external" THEN <<"e", "x", "t", "e", "r", "n", "a", "l">>
    ELSE <<"l", "o", "c", "a", "l">>

\* imports[k].append(item) on a defaultdict(list) kept in insertion order
DictAppend(d, k, item) ==
    IF \E i \in 1..Len(d) : d[i][1] = k
    THEN [i \in 1..Len(d) |->
             IF d[i][1] = k THEN <<k, Append(d[i][2], item)>> ELSE d[i]]
    ELSE Append(d, <<k, <<item>>>>)

\* the entries one node adds: per alias of an Import "as <asname>" or None
\* under alias.name, per alias of an ImportFrom its name, with " as
\* <asname>" when aliased, under the module string
RECURSIVE add_aliases(_, _, _)
add_aliases(d, n, names) ==
    IF names = <<>> THEN d
    ELSE LET alias == Head(names)
             d1 == IF n.type = "Import"
                   THEN DictAppend(d, alias.name,
                            IF alias.asname # NoAlias
                            THEN t_as \o alias.asname ELSE ItemNone)
                   ELSE DictAppend(d,
                            Dots(n.level)
                                \o (IF n.module = NoModule THEN <<>> ELSE n.module),
                            IF alias.asname # NoAlias
                            THEN alias.name \o <<" ">> \o t_as \o alias.asname
                            ELSE alias.name)
         IN add_aliases(d1, n, Tail(names))

RECURSIVE walk_imports(_, _)
walk_imports(d, nodes) ==
    IF nodes = <<>> THEN d
    ELSE walk_imports(add_aliases(d, Head(nodes), Head(nodes).names),
                      Tail(nodes))

\* import_map.parse_imports: read_text as UTF-8, on UnicodeDecodeError once
\* more as Latin-1, which decodes every byte string
map_read_text(source) ==
    IF read_utf8(source) = "UnicodeDecodeError" THEN "latin-1 text"
    ELSE "utf-8 text"

\* import_map.parse_imports lets the SyntaxError of ast.parse through
map_parse_imports_raises(source) == source.status = "syntax_error"

\* import_map.parse_imports of a source that parses
map_parse_imports(source) == walk_imports(<<>>, source.nodes)

\* import_map.find_py_files: every file rglob("*.py") yields
map_find_py_files(files, root) == { root \o f : f \in DOMAIN files }

\* project_doc_gen.collect_local_modules
collect_local_modules(paths, root) ==
    { module_name(paths[i], root) : i \in DOMAIN paths } \ {<<>>}

DictKeys(d) == { d[i][1] : i \in DOMAIN d }
DictGet(d, k) == d[CHOOSE i \in DOMAIN d : d[i][1] = k][2]

\* format_entry
RECURSIVE import_lines(_, _, _)
import_lines(m, names, indent) ==
    IF names = <<>> THEN <<>>
    ELSE LET item == Head(names)
             rest == import_lines(m, Tail(names), indent)
         IN IF item = ItemNone
            THEN <<indent \o t_import \o m \o t_tick>> \o rest
            ELSE IF startswith(item, t_as)
            THEN <<indent \o t_import \o m \o <<" ">> \o t_as
                       \o SubSeq(item, Len(t_as) + 1, Len(item)) \o t_tick>>
                     \o rest
            ELSE rest

RECURSIVE from_lines(_, _)
from_lines(names, indent) ==
    IF names = <<>> THEN <<>>
    ELSE LET item == Head(names)
             rest == from_lines(Tail(names), indent)
         IN IF item = ItemNone \/ startswith(item, t_as)
            THEN rest
            ELSE <<indent \o t_name \o item>> \o rest

format_entry(m, names, indent) ==
    LET froms == from_lines(names, indent)
    IN import_lines(m, names, indent)
           \o (IF froms # <<>>
               THEN <<indent \o t_module \o m \o t_colon>> \o froms
               ELSE <<>>)

\* format_markdown: the groups of one file, filled in sorted module order
RECURSIVE fill_groups(_, _, _, _)
fill_groups(gs, imports, modules, locals) ==
    IF modules = <<>> THEN gs
    ELSE fill_groups(
             AppendToGroup(gs, GroupOf(Head(modules), locals),
                           <<Head(modules), DictGet(imports, Head(modules))>>),
             imports, Tail(modules), locals)

RECURSIVE entry_lines(_)
entry_lines(entries) ==
    IF entries = <<>> THEN <<>>
    ELSE format_entry(entries[1][1], entries[1][2], t_indent)
             \o entry_lines(Tail(entries))

group_lines(gs, g) ==
    IF gs[g] = <<>> THEN <<>>
    ELSE <<t_group \o GroupText(g) \o t_bold>> \o entry_lines(gs[g])

file_lines(file_path, imports, locals) ==
    <<t_file \o file_path \o t_bold>>
        \o (IF imports = <<>> THEN <<t_no_imports>>
            ELSE LET gs == fill_groups(EmptyGroups, imports,
                                       sorted(DictKeys(imports)), locals)
                 IN group_lines(gs, "stdlib") \o group_lines(gs, "external")
                        \o group_lines(gs, "local"))

RECURSIVE files_lines(_, _, _)
files_lines(t, keys, locals) ==
    IF keys = <<>> THEN <<>>
    ELSE file_lines(Head(keys), DictGet(t, Head(keys)), locals)
             \o files_lines(t, Tail(keys), locals)

\* "\n".join(lines)
RECURSIVE join_lines(_)
join_lines(lines) ==
    IF lines = <<>> THEN <<>>
    ELSE IF Len(lines) = 1 THEN lines[1]
    ELSE lines[1] \o <<NL>> \o join_lines(Tail(lines))

tree_order_unsorted(t) == [i \in DOMAIN t |-> t[i][1]]

\* `for file_path in sorted(tree)`
tree_order(t) == sorted(DictKeys(t))

format_markdown(t, locals) ==
    LET lines == files_lines(t, tree_order(t), locals)
    IN IF lines # <<>> THEN join_lines(lines) ELSE t_none

InitDoc ==
    /\ pc = "doc_find"
    /\ fs \in Projects
    /\ py_files = <<>>
    /\ tree = <<>>
    /\ local_modules = {}
    /\ idx = 0
    /\ mod = <<>>
    /\ root_node = <<>>
    /\ added_nodes = {}
    /\ dot_body = <<>>
    /\ md = <<>>
    /\ node = ImportNode(<<>>)
    /\ module = <<>>
    /\ mcolor = None
    /\ groups = EmptyGroups
    /\ StatsIdle
    /\ CliIdle

\* project_doc_gen.main: py_files = find_py_files(root), in the order rglob yields them
DocFindPyFiles ==
    /\ pc = "doc_find"
    /\ py_files' \in Perms(map_find_py_files(fs, Root))
    /\ idx' = 1
    /\ pc' = "doc_tree"
    /\ UNCHANGED <<fs, tree, local_modules, mod, root_node, added_nodes,
                   dot_body, md, classifier_vars>>
    /\ UNCHANGED <<stats_vars, cli_vars>>

\* project_doc_gen.main: one turn of `for path in py_files`; a file that
\* does not parse is skipped
DocTreeStep ==
    /\ pc = "doc_tree"
    /\ idx <= Len(py_files)
    /\ LET rel == relative_to(py_files[idx], Root)
       IN tree' = IF fs[rel].status = "syntax_error" THEN tree
                  ELSE DictSet(tree, path_str(rel), map_parse_imports(fs[rel]))
    /\ idx' = idx + 1
    /\ UNCHANGED <<pc, fs, py_files, local_modules, mod, root_node,
                   added_nodes, dot_body, md, classifier_vars>>
    /\ UNCHANGED <<stats_vars, cli_vars>>

\* project_doc_gen.main: local_modules = collect_local_modules(py_files, root)
DocCollect ==
    /\ pc = "doc_tree"
    /\ idx > Len(py_files)
    /\ local_modules' = collect_local_modules(py_files, Root)
    /\ pc' = "doc_format"
    /\ UNCHANGED <<fs, py_files, tree, idx, mod, root_node, added_nodes,
                   dot_body, md, classifier_vars>>
    /\ UNCHANGED <<stats_vars, cli_vars>>

\* project_doc_gen.main: format_markdown and output_path.write_text
DocFormat ==
    /\ pc = "doc_format"
    /\ md' = format_markdown(tree, local_modules)
    /\ pc' = "written"
    /\ UNCHANGED <<fs, py_files, tree, local_modules, idx, mod, root_node,
                   added_nodes, dot_body, classifier_vars>>
    /\ UNCHANGED <<stats_vars, cli_vars>>

NextDoc == DocFindPyFiles \/ DocTreeStep \/ DocCollect \/ DocFormat

SpecDoc == InitDoc /\ [][NextDoc]_vars

(***************************************************************************)
(* Properties of name resolution, the index and the graph                  *)
(***************************************************************************)
\* the files the run scans, as paths relative to the root
Scanned == { relative_to(py_files[i], Root) : i \in DOMAIN py_files }

\* the distinct module strings the source of a scanned file refers to
Refs(rel) ==
    IF fs[rel].status = "ok"
    THEN { m \in UNION { ModuleStrings(fs[rel].nodes[i]) :
                            i \in DOMAIN fs[rel].nodes } : TRUE }
    ELSE {}

\* the name without its last three characters (".py")
StripPy(name) == SubSeq(name, 1, Len(name) - Len(PY))

\* the dotted name the rule of section 4.3 gives a relative path
RuleName(rel) ==
    LET front == SubSeq(rel, 1, Len(rel) - 1)
        last == rel[Len(rel)]
    IN IF last = init_py THEN join(front)
       ELSE join(Append(front, StripPy(last)))

LastCollected == relative_to(py_files[idx - 1], Root)

\* C5 as stated: module_name is the relative parts joined by dots with .py
\* stripped from the last one, and the parent's dotted path for __init__.py.
C5_AsStated ==
    (pc = "collect" /\ idx > 1) => mod = RuleName(LastCollected)

\* C5, amended: as stated for every file whose name does not begin with a
\* dot (pkg/sub/__init__.py gives pkg.sub, pkg/sub/mod.py gives
\* pkg.sub.mod); a file named exactly .py keeps .py as its last segment.
C5_ModuleName ==
    (pc = "collect" /\ idx > 1) =>
        LET rel == LastCollected
            last == rel[Len(rel)]
        IN /\ Head(last) # DOT => mod = RuleName(rel)
           /\ last = PY => mod = join(rel)
           /\ rel = f_sub_init => mod = join(<<s_pkg, s_sub>>)
           /\ rel = f_mod => mod = join(<<s_pkg, s_sub, s_mod>>)

C5_Witness ==
    /\ pc = "collect"
    /\ py_files = <<Root \o f_hidden, Root \o f_sub_init>>
    /\ idx = Len(py_files) + 1
    /\ mod = join(<<s_pkg, s_sub>>)
    /\ local_modules = {PY, join(<<s_pkg, s_sub>>)}

\* C6: the local module index is prefix-closed: every non-empty dotted
\* prefix of every scanned file's non-empty module name is in the index
\* (pkg/sub/mod.py alone gives pkg, pkg.sub and pkg.sub.mod).
C6_PrefixClosed ==
    pc \in {"graph", "rendered"} =>
        \A rel \in Scanned :
            LET segs == split(module_name(Root \o rel, Root))
            IN module_name(Root \o rel, Root) # <<>> =>
                   \A k \in 1..Len(segs) :
                       join(SubSeq(segs, 1, k)) # <<>> =>
                           join(SubSeq(segs, 1, k)) \in local_modules

NodeIdx == { i \in DOMAIN dot_body : dot_body[i].stmt = "node" }
EdgeIdx == { i \in DOMAIN dot_body : dot_body[i].stmt = "edge" }
NodeIds == { dot_body[i].name : i \in NodeIdx }
NodeCount(id) == Cardinality({ i \in NodeIdx : dot_body[i].name = id })
EdgeCount(tail, head) ==
    Cardinality({ i \in EdgeIdx :
                    dot_body[i].name = tail /\ dot_body[i].head = head })
AllRefs == UNION { Refs(rel) : rel \in Scanned }

\* C7: a file's imports are reduced to distinct module strings before the
\* edges are made, so each file has exactly one edge to each module string
\* it refers to (import os and from os import path: one edge to os); edges
\* of different files are not merged, and all of them end in one node.
C7_EdgeMultiplicity ==
    pc = "rendered" =>
        /\ \A rel \in Scanned : \A m \in AllRefs :
               EdgeCount(path_str(rel), m) = IF m \in Refs(rel) THEN 1 ELSE 0
        /\ \A i \in EdgeIdx :
               \E rel \in Scanned : /\ dot_body[i].name = path_str(rel)
                                     /\ dot_body[i].head \in Refs(rel)
        /\ \A m \in AllRefs : NodeCount(m) = 1

C7_Witness ==
    /\ pc = "rendered"
    /\ DOMAIN fs = {f_a, f_os}
    /\ fs[f_a] = src_twice
    /\ fs[f_os] = src_twice
    /\ EdgeCount(path_str(f_a), s_os) = 1
    /\ EdgeCount(path_str(f_os), s_os) = 1
    /\ NodeCount(s_os) = 1
    /\ Cardinality(EdgeIdx) = 2

IsPrefix(s, t) == Len(s) <= Len(t) /\ SubSeq(t, 1, Len(s)) = s

NoDuplicateNodes == \A i, j \in NodeIdx : dot_body[i].name = dot_body[j].name => i = j

\* C8: whatever part of the file sequence the loop has processed, no node
\* id has been emitted twice, the emitted ids are the registry, and a later
\* file or module with a known id leaves the statements already emitted as
\* they are.
C8_NodeIdsUnique ==
    [][ /\ NoDuplicateNodes'
        /\ pc' \in {"graph", "rendered"} => NodeIds' = added_nodes'
        /\ pc \in {"graph", "rendered"} => IsPrefix(dot_body, dot_body') ]_vars

C8_Witness ==
    /\ pc = "rendered"
    /\ py_files = <<Root \o f_b, Root \o f_a>>
    /\ fs[f_b] = src_a_py
    /\ NodeCount(path_str(f_a)) = 1
    /\ dot_body[2] = NodeStmt(path_str(f_a), "ellipse", "blue")
    /\ EdgeCount(path_str(f_b), path_str(f_a)) = 1

\* C9: the graph has exactly one File node per scanned file, exactly one
\* Module node per distinct module string and exactly one edge per (file,
\* module string of the file); a.py (import os, from .sibling import
\* helper, import numpy) with an empty sibling.py gives os StdLib, .sibling
\* Local, numpy External, 2 File nodes, 3 Module nodes and 3 edges from a.py.
C9_GraphCounts ==
    pc = "rendered" =>
        /\ \A rel \in Scanned :
               Cardinality({ i \in NodeIdx :
                   dot_body[i].name = path_str(rel)
                       /\ dot_body[i].shape = "box" }) = 1
        /\ \A m \in AllRefs :
               Cardinality({ i \in NodeIdx :
                   dot_body[i].name = m /\ dot_body[i].shape = "ellipse" }) = 1
        /\ Cardinality({ i \in NodeIdx : dot_body[i].shape = "box" })
               = Cardinality(Scanned)
        /\ Cardinality({ i \in NodeIdx : dot_body[i].shape = "ellipse" })
               = Cardinality(AllRefs)
        /\ \A rel \in Scanned : \A m \in AllRefs :
               EdgeCount(path_str(rel), m) = IF m \in Refs(rel) THEN 1 ELSE 0

\* the end-to-end scenario of C9 alone
ScenarioGraph ==
    (pc = "rendered" /\ DOMAIN fs = {f_a, f_sibling} /\ fs[f_a] = src_scenario)
    =>  /\ { dot_body[i] : i \in NodeIdx } =
               { NodeStmt(path_str(f_a), "box", "lightblue"),
                 NodeStmt(path_str(f_sibling), "box", "lightblue"),
                 NodeStmt(s_os, "ellipse", "gray"),
                 NodeStmt(<<DOT>> \o s_sibling, "ellipse", "blue"),
                 NodeStmt(s_numpy, "ellipse", "green") }
        /\ Cardinality(NodeIdx) = Cardinality({ dot_body[i] : i \in NodeIdx })
        /\ { dot_body[i] : i \in EdgeIdx } =
               { EdgeStmt(path_str(f_a), s_os),
                 EdgeStmt(path_str(f_a), <<DOT>> \o s_sibling),
                 EdgeStmt(path_str(f_a), s_numpy) }
        /\ Cardinality(EdgeIdx) = Cardinality({ dot_body[i] : i \in EdgeIdx })

(***************************************************************************)
(* Properties of the grouped listing                                       *)
(***************************************************************************)
\* the import tree of the file system, its files taken in sorted order
RECURSIVE tree_of(_)
tree_of(rels) ==
    IF rels = <<>> THEN <<>>
    ELSE LET rest == tree_of(Tail(rels))
             rel == Head(rels)
         IN IF fs[rel].status = "syntax_error" THEN rest
            ELSE <<<<path_str(rel), map_parse_imports(fs[rel])>>>> \o rest

AllRels == { g \in FilePool : g \in DOMAIN fs }

SortedRels ==
    CHOOSE q \in Perms(AllRels) :
        \A i, j \in DOMAIN q :
            i < j => str_less(path_str(q[i]), path_str(q[j]))

\* the listing of the file system as such, whatever the run's orders
ListingOf ==
    format_markdown(tree_of(SortedRels),
                    { module_name(Root \o rel, Root) : rel \in AllRels } \ {<<>>})

\* C10: the text project_doc_gen writes for a file tree is the same for
\* every order in which the files are discovered and inserted into the
\* tree mapping.
C10_ListingDeterministic ==
    pc = "written" => md = ListingOf

C10_Witness ==
    /\ pc = "written"
    /\ py_files = <<Root \o f_main, Root \o f_a>>
    /\ fs[f_main] = src_alias
    /\ fs[f_a] = src_scenario
    /\ tree[1][1] = main_py
    /\ md = ListingOf
    /\ startswith(md, t_file \o path_str(f_a) \o t_bold)

(***************************************************************************)
(* Properties of the emission order                                        *)
(***************************************************************************)
\* the statements that carry a file id: File nodes and edges (by their tail)
FileStmtIdx ==
    { i \in DOMAIN dot_body :
        dot_body[i].stmt = "edge" \/ dot_body[i].shape = "box" }

\* C11: the statements reach the renderer in a stable sorted order: file
\* ids in lexical order and, under one file, module ids in lexical order,
\* whatever the order in which the files were discovered.
C11_SortedEmission ==
    pc = "rendered" =>
        /\ \A i, j \in FileStmtIdx :
               i < j => ~ str_less(dot_body[j].name, dot_body[i].name)
        /\ \A i, j \in EdgeIdx :
               (i < j /\ dot_body[i].name = dot_body[j].name)
                   => str_less(dot_body[i].head, dot_body[j].head)

(***************************************************************************)
(* Properties of reading source files                                      *)
(***************************************************************************)
\* C19: a file whose bytes are not valid UTF-8 is read again under the
\* fallback encoding; a decode failure in one file never ends the run of
\* the graph builder.
C19_DecodeNeverAborts ==
    pc = "aborted" => \A rel \in Scanned : fs[rel].utf8

(***************************************************************************)
(* code_stats                                                              *)
(***************************************************************************)
\* the character U+00E9, which is one byte in Latin-1
EACUTE == "EACUTE"
f_venv_a == <<s_venvdir, s_a \o PY>>

stats_IGNORE_DIRS == {s_pycache, s_venv, s_venvdir}

\* code_stats.find_py_files: the files rglob("*.py") yields, without those
\* with an ignored part in path.parts
stats_find_py_files(files, root) ==
    { root \o f : f \in { g \in DOMAIN files :
        ~ \E i \in 1..Len(root \o g) : (root \o g)[i] \in stats_IGNORE_DIRS } }

\* content.splitlines(): the pieces between line feeds, without an empty
\* piece after a final line feed
RECURSIVE splitlines(_)
splitlines(content) ==
    IF content = <<>> THEN <<>>
    ELSE IF \A i \in 1..Len(content) : content[i] # NL THEN <<content>>
    ELSE LET i == CHOOSE k \in 1..Len(content) :
                     content[k] = NL /\ \A j \in 1..(k - 1) : content[j] # NL
         IN <<SubSeq(content, 1, i - 1)>>
                \o splitlines(SubSeq(content, i + 1, Len(content)))

\* line.strip()
RECURSIVE strip(_)
strip(line) ==
    IF line = <<>> THEN <<>>
    ELSE IF Head(line) = " " THEN strip(Tail(line))
    ELSE IF line[Len(line)] = " " THEN strip(SubSeq(line, 1, Len(line) - 1))
    ELSE line

\* the lines counted as blank: stripped == ""
blank_count(lines) ==
    Cardinality({ i \in DOMAIN lines : strip(lines[i]) = <<>> })

\* the lines counted as comments: elif stripped.startswith("#")
comment_count(lines) ==
    Cardinality({ i \in DOMAIN lines :
        strip(lines[i]) # <<>> /\ startswith(strip(lines[i]), <<"#">>) })

\* the number of nodes of the given types among those ast.walk yields
count_nodes(nodes, types) ==
    Cardinality({ i \in DOMAIN nodes : nodes[i].type \in types })

\* the nodes ast.walk yields that are no import statements
OtherNode(type) ==
    [type |-> type, level |-> 0, module |-> NoModule, names |-> <<>>]

\* a source with its text: the text is the UTF-8 decoding of the bytes when
\* they are valid UTF-8 and the Latin-1 decoding otherwise
Text(source, content) ==
    [status |-> source.status, nodes |-> source.nodes, utf8 |-> source.utf8,
     text |-> content]

\* analyze_file, with the structural counters left at zero when the parse
\* is tried before the lines are counted and fails
analyze_file_parsefirst(source) ==
    LET lines == splitlines(source.text)
    IN IF source.status = "syntax_error"
       THEN [lines |-> 0, blank |-> 0, comments |-> 0, defs |-> 0,
             classes |-> 0, imports |-> 0, from_imports |-> 0]
       ELSE [lines |-> Len(lines),
             blank |-> blank_count(lines),
             comments |-> comment_count(lines),
             defs |-> count_nodes(source.nodes,
                                     {"FunctionDef", "AsyncFunctionDef"}),
             classes |-> count_nodes(source.nodes, {"ClassDef"}),
             imports |-> count_nodes(source.nodes, {"Import"}),
             from_imports |-> count_nodes(source.nodes, {"ImportFrom"})]

\* analyze_file: the line counters from the text, the structural counters
\* from the nodes of the tree when the text parses
analyze_file(source) ==
    LET lines == splitlines(source.text)
        parses == source.status # "syntax_error"
    IN [lines |-> Len(lines),
        blank |-> blank_count(lines),
        comments |-> comment_count(lines),
        defs |-> IF parses
                 THEN count_nodes(source.nodes,
                                     {"FunctionDef", "AsyncFunctionDef"})
                 ELSE 0,
        classes |-> IF parses THEN count_nodes(source.nodes, {"ClassDef"}) ELSE 0,
        imports |-> IF parses THEN count_nodes(source.nodes, {"Import"}) ELSE 0,
        from_imports |->
            IF parses THEN count_nodes(source.nodes, {"ImportFrom"}) ELSE 0]

st_empty == Text(src_empty, <<>>)
st_small ==
    Text(Src(<<OtherNode("Module"), imp(s_os)>>),
         <<"i", "m", "p", "o", "r", "t", " ", "o", "s", NL>>)
st_mixed ==
    Text(Src(<<OtherNode("Module"), OtherNode("FunctionDef"),
               OtherNode("ClassDef"), frm(0, s_os, s_path),
               OtherNode("AsyncFunctionDef"), OtherNode("Expr")>>),
         <<"#", " ", "c", NL, NL, " ", " ", NL, "d", "e", "f", " ", "f", "(",
      ")", ":", " ", "0", NL, "c", "l", "a", "s", "s", " ", "C", ":", NL,
      " ", " ", "a", "s", "y", "n", "c", " ", "d", "e", "f", " ", "g", "(",
      ")", ":", " ", "0", NL, "f", "r", "o", "m", " ", "o", "s", " ", "i",
      "m", "p", "o", "r", "t", " ", "p", "a", "t", "h", NL, " ", " ", "#",
      " ", "d">>)
st_broken ==
    Text(Broken,
         <<"d", "e", "f", " ", "f", "(", ":", NL, "#", " ", "c", NL, NL, "i",
      "m", "p", "o", "r", "t", " ", "o", "s", NL>>)
st_latin1 ==
    Text(src_latin1,
         <<"#", " ", EACUTE, NL, "i", "m", "p", "o", "r", "t", " ", "o", "s">>)

StatsFilePool == {f_a, f_b, f_init, f_venv_a}

\* the sources enumerated for each file of a code_stats run
StatsSources(f) ==
    IF f = f_a THEN {st_mixed, st_broken, st_empty}
    ELSE IF f = f_b THEN {st_small, st_latin1}
    ELSE IF f = f_init THEN {st_empty}
    ELSE {st_small}

StatsProjects ==
    UNION { { p \in [D -> UNION { StatsSources(f) : f \in D }] :
                \A f \in D : p[f] \in StatsSources(f) } :
            D \in { D \in SUBSET StatsFilePool : Cardinality(D) <= MaxFiles } }

\* a project directory that lies below a directory named venv
VenvRoot == << <<"/">>, s_venvdir, s_proj >>
StatsRoots == {Root, VenvRoot}

\* args.output when --output is not given, and a file name for it
NoOutput == <<>>
stats_json == <<"s", "t", "a", "t", "s", ".", "j", "s", "o", "n">>

StatKeys ==
    {"lines", "blank", "comments", "defs", "classes", "imports",
     "from_imports"}

RECURSIVE gcd(_, _)
gcd(a, b) == IF b = 0 THEN a ELSE gcd(b, a % b)

\* a / b of two ints, kept as the fraction in lowest terms
TrueDiv(a, b) == [num |-> a \div gcd(a, b), den |-> b \div gcd(a, b)]

InitStats ==
    /\ pc = "stats_find"
    /\ fs \in StatsProjects
    /\ args \in [path : StatsRoots, output : {NoOutput, stats_json}]
    /\ py_files = <<>>
    /\ idx = 0
    /\ total = None
    /\ longest_file = <<>>
    /\ longest_lines = 0
    /\ report = None
    /\ out = None
    /\ tree = <<>>
    /\ local_modules = {}
    /\ mod = <<>>
    /\ root_node = <<>>
    /\ added_nodes = {}
    /\ dot_body = <<>>
    /\ md = <<>>
    /\ node = ImportNode(<<>>)
    /\ module = <<>>
    /\ mcolor = None
    /\ groups = EmptyGroups
    /\ CliIdle

\* main: py_files = find_py_files(root); without files the run ends here,
\* otherwise the counters are set to zero
StatsFindPyFiles ==
    /\ pc = "stats_find"
    /\ py_files' \in Perms(stats_find_py_files(fs, args.path))
    /\ IF py_files' = <<>>
       THEN /\ pc' = "stats_none"
            /\ UNCHANGED <<idx, total, longest_file, longest_lines>>
       ELSE /\ pc' = "stats_loop"
            /\ idx' = 1
            /\ total' = [k \in StatKeys |-> 0]
            /\ longest_file' = <<>>
            /\ longest_lines' = 0
    /\ UNCHANGED <<fs, args, report, out, tree, local_modules, mod, root_node,
                   added_nodes, dot_body, md, classifier_vars, cli_vars>>

\* main: one turn of `for path in py_files`
StatsFile ==
    /\ pc = "stats_loop"
    /\ idx <= Len(py_files)
    /\ LET path == py_files[idx]
           stats == analyze_file(fs[relative_to(path, args.path)])
       IN /\ total' = [k \in StatKeys |-> total[k] + stats[k]]
          /\ IF stats.lines > longest_lines
             THEN /\ longest_lines' = stats.lines
                  /\ longest_file' = path_str(relative_to(path, args.path))
             ELSE UNCHANGED <<longest_lines, longest_file>>
    /\ idx' = idx + 1
    /\ UNCHANGED <<pc, fs, args, py_files, report, out, tree, local_modules,
                   mod, root_node, added_nodes, dot_body, md, classifier_vars,
                   cli_vars>>

\* main: the report is built and printed, and dumped when --output is given
StatsReport ==
    /\ pc = "stats_loop"
    /\ idx > Len(py_files)
    /\ report' =
           [files |-> Len(py_files),
            total_lines |-> total["lines"],
            blank_lines |-> total["blank"],
            comment_lines |-> total["comments"],
            defs |-> total["defs"],
            classes |-> total["classes"],
            imports |-> total["imports"],
            from_imports |-> total["from_imports"],
            longest_file |-> [path |-> longest_file, lines |-> longest_lines],
            average_length |-> TrueDiv(total["lines"], Len(py_files))]
    /\ out' = IF args.output # NoOutput THEN report' ELSE out
    /\ pc' = "stats_done"
    /\ UNCHANGED <<fs, args, py_files, idx, total, longest_file, longest_lines,
                   tree, local_modules, mod, root_node, added_nodes, dot_body,
                   md, classifier_vars, cli_vars>>

NextStats == StatsFindPyFiles \/ StatsFile \/ StatsReport

SpecStats == InitStats /\ [][NextStats]_vars

(***************************************************************************)
(* Properties of the statistics pass                                       *)
(***************************************************************************)
\* the i-th discovered file relative to the root, and its source
StatsRel(i) == relative_to(py_files[i], args.path)
StatsSrc(i) == fs[StatsRel(i)]

\* physical lines of a text: its line feeds, and an unterminated last line
PhysicalLines(text) ==
    Cardinality({ i \in DOMAIN text : text[i] = NL })
        + (IF text # <<>> /\ text[Len(text)] # NL THEN 1 ELSE 0)

\* the lines made of spaces only / whose first other character is a #
BlankLines(text) ==
    Cardinality({ i \in DOMAIN splitlines(text) :
        \A k \in DOMAIN splitlines(text)[i] : splitlines(text)[i][k] = " " })
CommentLines(text) ==
    Cardinality({ i \in DOMAIN splitlines(text) :
        \E k \in DOMAIN splitlines(text)[i] :
            /\ splitlines(text)[i][k] = "#"
            /\ \A j \in 1..(k - 1) : splitlines(text)[i][j] = " " })

RECURSIVE SumLines(_)
SumLines(n) ==
    IF n = 0 THEN 0 ELSE PhysicalLines(StatsSrc(n).text) + SumLines(n - 1)

RECURSIVE SumStat(_, _)
SumStat(k, n) ==
    IF n = 0 THEN 0 ELSE analyze_file(StatsSrc(n))[k] + SumStat(k, n - 1)

\* C12: a file with a syntax error adds nothing to defs, classes, imports
\* and from_imports, its lines, blank lines and comment lines are counted
\* all the same, the loop goes on to the next file, and the report counts
\* the file in `files` and its physical lines in `total_lines`.
C12_SyntaxErrorDegrades ==
    [][ /\ (pc = "stats_loop" /\ idx <= Len(py_files)
                /\ StatsSrc(idx).status = "syntax_error")
           => /\ pc' = "stats_loop"
              /\ idx' = idx + 1
              /\ total'["lines"]
                     = total["lines"] + PhysicalLines(StatsSrc(idx).text)
              /\ total'["blank"]
                     = total["blank"] + BlankLines(StatsSrc(idx).text)
              /\ total'["comments"]
                     = total["comments"] + CommentLines(StatsSrc(idx).text)
              /\ \A k \in {"defs", "classes", "imports", "from_imports"} :
                     total'[k] = total[k]
        /\ pc' = "stats_done"
           => /\ report'.files = Len(py_files)
              /\ report'.total_lines = SumLines(Len(py_files)) ]_vars

C12_Witness ==
    /\ pc = "stats_done"
    /\ py_files = <<Root \o f_b, Root \o f_a>>
    /\ fs[f_a] = st_broken
    /\ fs[f_b] = st_small
    /\ report.files = 2
    /\ report.total_lines = 5
    /\ report.blank_lines = 1
    /\ report.comment_lines = 1
    /\ report.defs = 0
    /\ report.imports = 1

\* C15: for a non-empty file set, files is the number of discovered files,
\* every total is the sum of the per-file counts, longest_file.lines is the
\* largest per-file line count and longest_file.path the path of a file
\* with that count, average_length = total_lines / files; for an empty file
\* set there is no report and no output file.
C15_ReportAggregates ==
    /\ pc = "stats_done" =>
           LET n == Len(py_files)
           IN /\ n > 0
              /\ report.files = Cardinality(stats_find_py_files(fs, args.path))
              /\ report.total_lines = SumStat("lines", n)
              /\ report.blank_lines = SumStat("blank", n)
              /\ report.comment_lines = SumStat("comments", n)
              /\ report.defs = SumStat("defs", n)
              /\ report.classes = SumStat("classes", n)
              /\ report.imports = SumStat("imports", n)
              /\ report.from_imports = SumStat("from_imports", n)
              /\ \A i \in 1..n :
                     analyze_file(StatsSrc(i)).lines <= report.longest_file.lines
              /\ \E i \in 1..n :
                     /\ path_str(StatsRel(i)) = report.longest_file.path
                     /\ analyze_file(StatsSrc(i)).lines
                            = report.longest_file.lines
              /\ report.average_length.num * n
                     = report.total_lines * report.average_length.den
    /\ pc = "stats_none" =>
           /\ stats_find_py_files(fs, args.path) = {}
           /\ report = None
           /\ out = None

\* C18: find_py_files returns a file under the root exactly when no
\* directory of its path relative to the root is in the ignore set, whatever
\* the directories above the root are called.
C18_IgnoreRelativeToRoot ==
    pc # "stats_find" =>
        { StatsRel(i) : i \in DOMAIN py_files }
            = { f \in DOMAIN fs :
                  \A k \in 1..(Len(f) - 1) : f[k] \notin stats_IGNORE_DIRS }

(***************************************************************************)
(* Properties of the structure of the grouped listing                      *)
(***************************************************************************)
\* the heading section 4.5 puts a module string under
HeadingOf(m, L) ==
    IF startswith(m, <<DOT>>) \/ MatchesIndex(m, L) THEN "local"
    ELSE IF LeadingSegment(m) \in stdlib_module_names THEN "stdlib"
    ELSE "external"

\* the imports a discovered file contributes: none when it does not parse
ImportsOf(rel) ==
    IF fs[rel].status = "syntax_error" THEN <<>>
    ELSE map_parse_imports(fs[rel])

\* one heading with the modules of the file that belong under it, in
\* lexical order; nothing when there is no such module
HeadingBlock(imports, g, L) ==
    LET ms == sorted({ m \in DictKeys(imports) : HeadingOf(m, L) = g })
    IN IF ms = <<>> THEN <<>>
       ELSE <<t_group \o GroupText(g) \o t_bold>>
                \o entry_lines([i \in DOMAIN ms |->
                                    <<ms[i], DictGet(imports, ms[i])>>])

FileBlock(rel, L) ==
    <<t_file \o path_str(rel) \o t_bold>>
        \o (IF ImportsOf(rel) = <<>> THEN <<t_no_imports>>
            ELSE HeadingBlock(ImportsOf(rel), "stdlib", L)
                     \o HeadingBlock(ImportsOf(rel), "external", L)
                     \o HeadingBlock(ImportsOf(rel), "local", L))

RECURSIVE FileBlocks(_, _)
FileBlocks(rels, L) ==
    IF rels = <<>> THEN <<>>
    ELSE FileBlock(Head(rels), L) \o FileBlocks(Tail(rels), L)

\* C16: the listing has one top-level entry per discovered file, in lexical
\* order of relative path; under a file every imported module stands under
\* exactly one of the headings stdlib, external, local, in that order, empty
\* headings left out, modules in lexical order under a heading, and a file
\* without imports shows (no imports).
C16_ListingStructure ==
    (pc = "written" /\ py_files # <<>>) =>
        md = join_lines(FileBlocks(SortedRels,
                 { module_name(Root \o rel, Root) : rel \in AllRels } \ {<<>>}))

(***************************************************************************)
(* import_graph: the graph tool that scans the working directory           *)
(***************************************************************************)
\* import_graph.find_py_files: every file rglob("*.py") yields
ig_find_py_files(files, root) == { root \o f : f \in DOMAIN files }

\* import_graph.parse_imports has no except clause: the UnicodeDecodeError
\* of f.read() and the SyntaxError of ast.parse both leave it
ig_parse_imports_raises(source) ==
    read_utf8(source) = "UnicodeDecodeError" \/ source.status = "syntax_error"

ig_build_import_tree_raises(files, paths, root) ==
    \E i \in DOMAIN paths :
        ig_parse_imports_raises(files[relative_to(paths[i], root)])

\* module_name_from_path
module_name_from_path(rel) == join(with_suffix_empty(rel))

\* import_graph.collect_local_modules: every prefix of the dotted name of
\* every file and, for an __init__.py, the name without its last segment
ig_collect_local_modules(paths, root) ==
    UNION { LET rel == relative_to(paths[i], root)
                parts == split(module_name_from_path(rel))
            IN { join(SubSeq(parts, 1, k)) : k \in 1..Len(parts) }
                   \cup (IF rel[Len(rel)] = init_py /\ parts # <<>>
                         THEN {join(SubSeq(parts, 1, Len(parts) - 1))}
                         ELSE {}) :
            i \in DOMAIN paths }

InitImportGraph ==
    /\ pc = "ig_find"
    /\ fs \in Projects
    /\ py_files = <<>>
    /\ tree = <<>>
    /\ local_modules = {}
    /\ idx = 0
    /\ mod = <<>>
    /\ root_node = <<>>
    /\ added_nodes = {}
    /\ dot_body = <<>>
    /\ md = <<>>
    /\ node = ImportNode(<<>>)
    /\ module = <<>>
    /\ mcolor = None
    /\ groups = EmptyGroups
    /\ StatsIdle
    /\ CliIdle

\* main: py_files = find_py_files(root), in the order rglob yields them
IgFindPyFiles ==
    /\ pc = "ig_find"
    /\ py_files' \in Perms(ig_find_py_files(fs, Root))
    /\ pc' = "ig_tree"
    /\ UNCHANGED <<fs, tree, local_modules, idx, mod, root_node, added_nodes,
                   dot_body, md, classifier_vars, stats_vars, cli_vars>>

\* main: tree = build_import_tree(py_files, root); an exception out of it
\* is caught nowhere and ends the run
IgBuildImportTree ==
    /\ pc = "ig_tree"
    /\ IF ig_build_import_tree_raises(fs, py_files, Root)
       THEN /\ pc' = "ig_aborted"
            /\ UNCHANGED tree
       ELSE /\ tree' = build_import_tree(fs, py_files, Root)
            /\ pc' = "ig_collect"
    /\ UNCHANGED <<fs, py_files, local_modules, idx, mod, root_node,
                   added_nodes, dot_body, md, classifier_vars, stats_vars,
                   cli_vars>>

\* main: local_modules = collect_local_modules(py_files, root); the
\* registry starts empty
IgCollect ==
    /\ pc = "ig_collect"
    /\ local_modules' = ig_collect_local_modules(py_files, Root)
    /\ added_nodes' = {}
    /\ idx' = 1
    /\ pc' = "ig_graph"
    /\ UNCHANGED <<fs, py_files, tree, mod, root_node, dot_body, md,
                   classifier_vars, stats_vars, cli_vars>>

\* main: one turn of `for file_path, imports in tree.items()`; the loop
\* over sorted(imports) is the one of import_graph_builder
IgGraphFile ==
    /\ pc = "ig_graph"
    /\ idx <= Len(tree)
    /\ LET file_path == tree[idx][1]
           imports == tree[idx][2]
           body1 == IF file_path \notin added_nodes
                    THEN Append(dot_body,
                                NodeStmt(file_path, "box", "lightblue"))
                    ELSE dot_body
           r == module_loop(file_path, sorted(imports), local_modules,
                            added_nodes \cup {file_path}, body1)
       IN /\ added_nodes' = r.added
          /\ dot_body' = r.body
    /\ idx' = idx + 1
    /\ UNCHANGED <<pc, fs, py_files, tree, local_modules, mod, root_node, md,
                   classifier_vars, stats_vars, cli_vars>>

\* main: the loop is over, dot.render
IgRender ==
    /\ pc = "ig_graph"
    /\ idx > Len(tree)
    /\ pc' = "ig_rendered"
    /\ UNCHANGED <<fs, py_files, tree, local_modules, idx, mod, root_node,
                   added_nodes, dot_body, md, classifier_vars, stats_vars,
                   cli_vars>>

NextImportGraph ==
    IgFindPyFiles \/ IgBuildImportTree \/ IgCollect \/ IgGraphFile
        \/ IgRender

SpecImportGraph == InitImportGraph /\ [][NextImportGraph]_vars

(***************************************************************************)
(* Properties of the index of import_graph                                 *)
(***************************************************************************)
\* the discovered files without an __init__.py that lies in the root
NotRootInit(path) == relative_to(path, Root) # f_init

\* C17: an __init__.py directly in the root contributes no entry to the
\* local module index, and the index never contains the empty string.
C17_RootInitContributesNothing ==
    pc \in {"ig_graph", "ig_rendered"} =>
        /\ <<>> \notin local_modules
        /\ local_modules
               = ig_collect_local_modules(SelectSeq(py_files, NotRootInit), Root)

(***************************************************************************)
(* import_map: the plain listing (also the Architecture part of readme_gen)*)
(***************************************************************************)
\* import_map.build_import_tree ends with the first exception that
\* parse_imports lets through
map_build_import_tree_raises(files, paths, root) ==
    \E i \in DOMAIN paths :
        map_parse_imports_raises(files[relative_to(paths[i], root)])

RECURSIVE map_build_import_tree(_, _, _)
map_build_import_tree(files, paths, root) ==
    IF paths = <<>> THEN <<>>
    ELSE LET front == SubSeq(paths, 1, Len(paths) - 1)
             rel == relative_to(paths[Len(paths)], root)
         IN DictSet(map_build_import_tree(files, front, root),
                    path_str(rel), map_parse_imports(files[rel]))

\* import_map.format_markdown: the lines of the modules of one file, in
\* sorted order
RECURSIVE map_module_lines(_, _)
map_module_lines(imports, modules) ==
    IF modules = <<>> THEN <<>>
    ELSE format_entry(Head(modules), DictGet(imports, Head(modules)),
                      <<" ", " ">>)
             \o map_module_lines(imports, Tail(modules))

RECURSIVE map_files_lines(_, _)
map_files_lines(t, keys) ==
    IF keys = <<>> THEN <<>>
    ELSE LET imports == DictGet(t, Head(keys))
         IN <<t_file \o Head(keys) \o t_bold>>
                \o (IF imports = <<>> THEN <<t_no_imports>>
                    ELSE map_module_lines(imports, sorted(DictKeys(imports))))
                \o map_files_lines(t, Tail(keys))

map_format_markdown(t) ==
    IF t = <<>> THEN t_none
    ELSE join_lines(map_files_lines(t, sorted(DictKeys(t))))

InitMap ==
    /\ pc = "map_find"
    /\ fs \in Projects
    /\ py_files = <<>>
    /\ tree = <<>>
    /\ local_modules = {}
    /\ idx = 0
    /\ mod = <<>>
    /\ root_node = <<>>
    /\ added_nodes = {}
    /\ dot_body = <<>>
    /\ md = <<>>
    /\ node = ImportNode(<<>>)
    /\ module = <<>>
    /\ mcolor = None
    /\ groups = EmptyGroups
    /\ StatsIdle
    /\ CliIdle

\* main: py_files = find_py_files(root), in the order rglob yields them
MapFindPyFiles ==
    /\ pc = "map_find"
    /\ py_files' \in Perms(map_find_py_files(fs, Root))
    /\ pc' = "map_tree"
    /\ UNCHANGED <<fs, tree, local_modules, idx, mod, root_node, added_nodes,
                   dot_body, md, classifier_vars, stats_vars, cli_vars>>

\* main: tree = build_import_tree(py_files, root); an exception out of it
\* is caught nowhere and ends the run
MapBuildImportTree ==
    /\ pc = "map_tree"
    /\ IF map_build_import_tree_raises(fs, py_files, Root)
       THEN /\ pc' = "map_aborted"
            /\ UNCHANGED tree
       ELSE /\ tree' = map_build_import_tree(fs, py_files, Root)
            /\ pc' = "map_format"
    /\ UNCHANGED <<fs, py_files, local_modules, idx, mod, root_node,
                   added_nodes, dot_body, md, classifier_vars, stats_vars,
                   cli_vars>>

\* main: md_graph = format_markdown(tree) is printed
MapFormat ==
    /\ pc = "map_format"
    /\ md' = map_format_markdown(tree)
    /\ pc' = "map_printed"
    /\ UNCHANGED <<fs, py_files, tree, local_modules, idx, mod, root_node,
                   added_nodes, dot_body, classifier_vars, stats_vars,
                   cli_vars>>

NextMap == MapFindPyFiles \/ MapBuildImportTree \/ MapFormat

SpecMap == InitMap /\ [][NextMap]_vars

(***************************************************************************)
(* The four import tools side by side                                      *)
(***************************************************************************)
InitImportTools == InitGraph \/ InitImportGraph \/ InitMap \/ InitDoc

NextImportTools == NextGraph \/ NextImportGraph \/ NextMap \/ NextDoc

\* a run of one of import_graph_builder, import_graph, import_map and
\* project_doc_gen on a project
SpecImportTools == InitImportTools /\ [][NextImportTools]_vars

(***************************************************************************)
(* Properties of the import tools when a file does not parse               *)
(***************************************************************************)
\* the run of a tool has ended with an exception / has completed
Aborted == pc \in {"aborted", "ig_aborted", "map_aborted"}
Completed == pc \in {"rendered", "ig_rendered", "map_printed", "written"}

\* the entries of the tree under the path of a file, and the module
\* strings of an entry (a set in the graph tools, the keys of a dict in the
\* listing tools)
TreeEntry(rel) == { i \in DOMAIN tree : tree[i][1] = path_str(rel) }
ModulesAt(i) ==
    IF pc \in {"rendered", "ig_rendered"} THEN tree[i][2]
    ELSE DictKeys(tree[i][2])

\* C13: in each of the import tools a file that fails to parse contributes
\* an empty import list, every other file is still processed, and the run
\* completes: no run ends on a parse failure, and a completed run has an
\* entry for every scanned file, empty for the file that does not parse.
C13_ParseFailureTolerated ==
    /\ Aborted => \E rel \in Scanned : ~ fs[rel].utf8
    /\ Completed =>
           \A rel \in Scanned :
               /\ TreeEntry(rel) # {}
               /\ \A i \in TreeEntry(rel) : ModulesAt(i) = Refs(rel)

(***************************************************************************)
(* Properties of the order of indexing and classification                  *)
(***************************************************************************)
\* a run of the graph builder or of the grouped listing
InitIndexTools == InitGraph \/ InitDoc
NextIndexTools == NextGraph \/ NextDoc
SpecIndexTools == InitIndexTools /\ [][NextIndexTools]_vars

\* the index of the complete discovered file set
FullIndex == { module_name(py_files[i], Root) : i \in DOMAIN py_files } \ {<<>>}

\* the positions at which is_local is called, and those after them
Classifying == pc \in {"graph", "doc_format"}
Classified == pc \in {"rendered", "written"}

\* C20: in every run of the graph builder and of the grouped listing the
\* index holds the names of all discovered files before is_local is called
\* for the first time and does not change afterwards, so that a module is
\* classified the same whether the file that defines it comes before or
\* after the file that imports it.
C20_IndexBeforeClassification ==
    [][ /\ Classifying => local_modules = FullIndex
        /\ (Classifying \/ Classified) =>
               local_modules' = local_modules /\ py_files' = py_files
        /\ (pc = "graph" /\ pc' = "graph") =>
               LET full == FullIndex
               IN \A i \in (Len(dot_body) + 1)..Len(dot_body') :
                      dot_body'[i].shape = "ellipse" =>
                          dot_body'[i].color
                              = ModuleColor(dot_body'[i].name, full)
        /\ pc = "doc_format" => md' = format_markdown(tree, FullIndex) ]_vars

C20_Witness ==
    /\ pc = "rendered"
    /\ py_files = <<Root \o f_b, Root \o f_a>>
    /\ fs[f_b] = src_a
    /\ dot_body[2] = NodeStmt(s_a, "ellipse", "blue")
    /\ local_modules = {s_a, s_b}

(***************************************************************************)
(* project_map: the driving command line                                   *)
(***************************************************************************)
Modes == {"doc", "graph", "stats", "html", "readme", "todo", "ai-doc", "ci"}

opt_path == <<"-", "-", "p", "a", "t", "h">>
opt_output == <<"-", "-", "o", "u", "t", "p", "u", "t">>
out_name == <<"o", "u", "t">>

\* str(root) of an absolute path
abs_str(path) == <<"/">> \o path_str(Tail(path))

\* main: the module each mode calls
ModuleOf(mode) ==
    IF mode = "doc" THEN "project_doc_gen"
    ELSE IF mode = "graph" THEN "import_graph_builder"
    ELSE IF mode = "stats" THEN "code_stats"
    ELSE IF mode = "html" THEN "html_reporter"
    ELSE IF mode = "readme" THEN "readme_gen"
    ELSE IF mode = "todo" THEN "todo_scanner"
    ELSE IF mode = "ai-doc" THEN "ai_docgen"
    ELSE "ci_runner"

\* main: the argument list each mode gives its module
ArgsFor(mode, root, output) ==
    (IF mode \in {"doc", "graph"} THEN <<abs_str(root)>>
     ELSE <<opt_path, abs_str(root)>>)
        \o (IF output # NoOutput THEN <<opt_output, output>> ELSE <<>>)

\* the third-party package a module imports at its top
Requires(module_name_) ==
    IF module_name_ = "import_graph_builder" THEN {"graphviz"}
    ELSE IF module_name_ = "ci_runner" THEN {"requests"}
    ELSE {}

HasOutput(arguments) == \E i \in DOMAIN arguments : arguments[i] = opt_output

\* the files a tool discovers: rglob and os.walk yield nothing for a root
\* that does not exist
Seen(files, e) == IF e.root_exists THEN files ELSE <<>>

\* how the main of each tool ends: "return", "SystemExit" (argparse, status
\* 2) or "exception" (uncaught, status 1); Digraph.render raises when the
\* dot executable is missing
MainOutcome(mode, arguments, files, e) ==
    LET seen == Seen(files, e)
        some_syntax_error ==
            \E f \in DOMAIN seen : seen[f].status = "syntax_error"
        some_not_utf8 == \E f \in DOMAIN seen : ~ seen[f].utf8
        write == IF e.writable THEN "return" ELSE "exception"
        found == stats_find_py_files(seen, Root) # {}
    IN IF mode = "doc" THEN write
       ELSE IF mode = "graph"
       THEN IF \E f \in DOMAIN seen :
                    /\ Root \o f \in find_py_files(seen, Root)
                    /\ parse_imports_raises(seen[f])
            THEN "exception"
            ELSE IF e.dot THEN write ELSE "exception"
       ELSE IF mode = "stats"
       THEN IF found /\ HasOutput(arguments) THEN write ELSE "return"
       ELSE IF mode = "html"
       THEN IF found THEN write ELSE "return"
       ELSE IF mode = "readme"
       THEN IF some_syntax_error \/ some_not_utf8 THEN "exception" ELSE write
       ELSE IF mode = "todo" THEN write
       ELSE IF mode = "ai-doc"
       THEN IF some_not_utf8 THEN "exception" ELSE write
       ELSE "SystemExit"

\* ci_runner.main: argparse rejects --output; otherwise the sub-commands
\* doc, graph and stats run as child processes with check=True
CiOutcome(arguments, files, e) ==
    IF HasOutput(arguments) THEN "SystemExit"
    ELSE IF ~ e.writable THEN "exception"
    ELSE IF \E m \in {"doc", "graph", "stats"} :
                \/ ~ (Requires(ModuleOf(m)) \subseteq e.installed)
                \/ MainOutcome(m, <<opt_output, out_name>>, files, e) # "return"
    THEN "exception"
    ELSE "return"

Outcome(mode, arguments, files, e) ==
    IF mode = "ci" THEN CiOutcome(arguments, files, e)
    ELSE MainOutcome(mode, arguments, files, e)

CliProjects == { p \in Projects : Cardinality(DOMAIN p) <= 1 }

InitCli ==
    /\ pc = "cli_main"
    /\ fs \in CliProjects
    /\ env \in [installed : SUBSET {"graphviz", "requests"}, dot : BOOLEAN,
                root_exists : BOOLEAN, writable : BOOLEAN]
    /\ parsed \in [mode : Modes, path : {Root}, output : {NoOutput, out_name}]
    /\ argv = <<>>
    /\ exit_code = None
    /\ steps = <<>>
    /\ py_files = <<>>
    /\ tree = <<>>
    /\ local_modules = {}
    /\ idx = 0
    /\ mod = <<>>
    /\ root_node = <<>>
    /\ added_nodes = {}
    /\ dot_body = <<>>
    /\ md = <<>>
    /\ node = ImportNode(<<>>)
    /\ module = <<>>
    /\ mcolor = None
    /\ groups = EmptyGroups
    /\ StatsIdle

\* main: the branch of the mode builds args and calls call_module
CliDispatch ==
    /\ pc = "cli_main"
    /\ argv' = ArgsFor(parsed.mode, parsed.path, parsed.output)
    /\ pc' = "call_module"
    /\ UNCHANGED <<parsed, env, exit_code, steps, pipeline_vars, local_modules,
                   classifier_vars, stats_vars>>

\* call_module: importlib.import_module; an ImportError is reported and
\* the process exits with status 1
CliImport ==
    /\ pc = "call_module"
    /\ IF Requires(ModuleOf(parsed.mode)) \subseteq env.installed
       THEN /\ pc' = "module_main"
            /\ UNCHANGED exit_code
       ELSE /\ pc' = "exited"
            /\ exit_code' = 1
    /\ UNCHANGED <<parsed, argv, env, steps, pipeline_vars, local_modules,
                   classifier_vars, stats_vars>>

\* call_module: module.main(args), and the end of the process
CliRunMain ==
    /\ pc = "module_main"
    /\ LET outcome == Outcome(parsed.mode, argv, fs, env)
       IN exit_code' = IF outcome = "return" THEN 0
                       ELSE IF outcome = "SystemExit" THEN 2
                       ELSE 1
    /\ pc' = "exited"
    /\ UNCHANGED <<parsed, argv, env, steps, pipeline_vars, local_modules,
                   classifier_vars, stats_vars>>

NextCli == CliDispatch \/ CliImport \/ CliRunMain

SpecCli == InitCli /\ [][NextCli]_vars

(***************************************************************************)
(* Properties of the exit status                                           *)
(***************************************************************************)
\* C14: a project_map run exits with status zero whenever the root could
\* be searched and the output could be written, also when files or a
\* renderer were skipped; a status other than zero occurs only when the
\* root is missing or the output cannot be written.
C14_ExitStatus ==
    pc = "exited" =>
        /\ (env.root_exists /\ env.writable) => exit_code = 0
        /\ exit_code # 0 => (~ env.root_exists \/ ~ env.writable)

(***************************************************************************)
(* The argument parsers of the target modules                              *)
(***************************************************************************)
opt_format == <<"-", "-", "f", "o", "r", "m", "a", "t">>
opt_update_readme == <<"-", "-", "u", "p", "d", "a", "t", "e", "-", "r", "e", "a", "d", "m", "e">>
opt_gh_pages == <<"-", "-", "g", "h", "-", "p", "a", "g", "e", "s">>
opt_badge == <<"-", "-", "b", "a", "d", "g", "e">>

\* parser.add_argument of each main: the positional slots, the options
\* that take a value and the store_true flags
ParserOf(module_name_) ==
    IF module_name_ \in {"project_doc_gen", "import_graph_builder"}
    THEN [positionals |-> 1, options |-> {opt_output}, flags |-> {}]
    ELSE IF module_name_ = "ai_docgen"
    THEN [positionals |-> 0, options |-> {opt_path, opt_output, opt_format},
          flags |-> {}]
    ELSE IF module_name_ = "ci_runner"
    THEN [positionals |-> 0, options |-> {opt_path},
          flags |-> {opt_update_readme, opt_gh_pages, opt_badge}]
    ELSE [positionals |-> 0, options |-> {opt_path, opt_output}, flags |-> {}]

\* an argument that argparse reads as an option string
IsOptionString(arg) == Len(arg) >= 1 /\ arg[1] = "-"

\* ArgumentParser.parse_args: TRUE when the list parses, FALSE when the
\* parser reports an error (unrecognized arguments, a value that is
\* missing) and exits with status 2
RECURSIVE parse_args_accepts(_, _, _)
parse_args_accepts(parser, arguments, free) ==
    IF arguments = <<>> THEN TRUE
    ELSE LET arg == Head(arguments)
         IN IF arg \in parser.options
            THEN /\ Len(arguments) >= 2
                 /\ ~ IsOptionString(arguments[2])
                 /\ parse_args_accepts(parser, Tail(Tail(arguments)), free)
            ELSE IF arg \in parser.flags
            THEN parse_args_accepts(parser, Tail(arguments), free)
            ELSE /\ ~ IsOptionString(arg)
                 /\ free >= 1
                 /\ parse_args_accepts(parser, Tail(arguments), free - 1)

Accepts(module_name_, arguments) ==
    LET parser == ParserOf(module_name_)
    IN parse_args_accepts(parser, arguments, parser.positionals)

(***************************************************************************)
(* Properties of the argument lists                                        *)
(***************************************************************************)
\* C24: for every mode, with or without --output, the argument list that
\* project_map hands to the main of the target module is one that the
\* argument parser of this module accepts.
C24_ArgsAccepted ==
    pc \in {"call_module", "module_main", "exited"} =>
        Accepts(ModuleOf(parsed.mode), argv)

(***************************************************************************)
(* ci_runner: the steps of one CI run                                      *)
(***************************************************************************)
\* the exit status of a child `project_map.py --mode m --path root
\* --output o`: 1 after an ImportError in call_module, else by how the
\* main of the tool ends
ChildStatus(mode, files, e) ==
    IF ~ (Requires(ModuleOf(mode)) \subseteq e.installed) THEN 1
    ELSE LET outcome ==
                 MainOutcome(mode, ArgsFor(mode, Root, out_name), files, e)
         IN IF outcome = "return" THEN 0
            ELSE IF outcome = "SystemExit" THEN 2
            ELSE 1

Step(name, returncode) == [name |-> name, returncode |-> returncode]

\* the steps after the three child processes: the flags that are set, in
\* the order of main
PostSteps(flags) ==
    (IF flags.update_readme THEN <<Step("update_readme", 0)>> ELSE <<>>)
        \o (IF flags.gh_pages THEN <<Step("prepare_pages", 0)>> ELSE <<>>)
        \o (IF flags.badge THEN <<Step("generate_badges", 0)>> ELSE <<>>)

InitCi ==
    /\ pc = "ci_main"
    /\ fs \in CliProjects
    /\ env \in [installed : {{"requests"}, {"requests", "graphviz"}},
                dot : BOOLEAN, root_exists : BOOLEAN, writable : BOOLEAN]
    /\ parsed \in [path : {Root}, update_readme : BOOLEAN,
                   gh_pages : BOOLEAN, badge : BOOLEAN]
    /\ argv = <<>>
    /\ exit_code = None
    /\ steps = <<>>
    /\ py_files = <<>>
    /\ tree = <<>>
    /\ local_modules = {}
    /\ idx = 0
    /\ mod = <<>>
    /\ root_node = <<>>
    /\ added_nodes = {}
    /\ dot_body = <<>>
    /\ md = <<>>
    /\ node = ImportNode(<<>>)
    /\ module = <<>>
    /\ mcolor = None
    /\ groups = EmptyGroups
    /\ StatsIdle

\* main: report_dir.mkdir(parents=True, exist_ok=True); an OSError is not
\* caught and ends the run
CiMkdir ==
    /\ pc = "ci_main"
    /\ IF env.writable
       THEN /\ pc' = "ci_doc"
            /\ UNCHANGED exit_code
       ELSE /\ pc' = "ci_exited"
            /\ exit_code' = 1
    /\ UNCHANGED <<parsed, argv, env, steps, pipeline_vars, local_modules,
                   classifier_vars, stats_vars>>

\* run_project_map: subprocess.run(cmd, check=True) on the root that mkdir
\* has made if it was missing; a child that exits
\* with a status other than zero raises CalledProcessError, which nothing
\* in main catches
run_project_map(mode, next) ==
    LET returncode ==
            ChildStatus(mode, Seen(fs, env),
                        [env EXCEPT !.root_exists = TRUE])
    IN /\ steps' = Append(steps, Step(mode, returncode))
       /\ IF returncode = 0
          THEN /\ pc' = next
               /\ UNCHANGED exit_code
          ELSE /\ pc' = "ci_exited"
               /\ exit_code' = 1
       /\ UNCHANGED <<parsed, argv, env, pipeline_vars, local_modules,
                      classifier_vars, stats_vars>>

CiDoc == pc = "ci_doc" /\ run_project_map("doc", "ci_graph")

CiGraph == pc = "ci_graph" /\ run_project_map("graph", "ci_stats")

CiStats == pc = "ci_stats" /\ run_project_map("stats", "ci_post")

\* main: load the statistics, then update_readme, prepare_pages and
\* generate_badges as the flags say; generate_badges catches every
\* exception of a download
CiPost ==
    /\ pc = "ci_post"
    /\ steps' = steps \o PostSteps(parsed)
    /\ exit_code' = 0
    /\ pc' = "ci_exited"
    /\ UNCHANGED <<parsed, argv, env, pipeline_vars, local_modules,
                   classifier_vars, stats_vars>>

NextCi == CiMkdir \/ CiDoc \/ CiGraph \/ CiStats \/ CiPost

SpecCi == InitCi /\ [][NextCi]_vars

(***************************************************************************)
(* Properties of the CI run                                                *)
(***************************************************************************)
StepNames == { steps[i].name : i \in DOMAIN steps }

GraphStepFailed ==
    \E i \in DOMAIN steps :
        steps[i].name = "graph" /\ steps[i].returncode # 0

\* C21: when the graph step of a CI run fails, the run goes on: once the
\* run has ended, the statistics step and the README, pages and badge
\* steps that were asked for have been executed.
C21_GraphFailureRecovered ==
    (pc = "ci_exited" /\ GraphStepFailed) =>
        /\ "stats" \in StepNames
        /\ parsed.update_readme => "update_readme" \in StepNames
        /\ parsed.gh_pages => "prepare_pages" \in StepNames
        /\ parsed.badge => "generate_badges" \in StepNames

(***************************************************************************)
(* html_reporter: gather_statistics                                        *)
(***************************************************************************)
RECURSIVE sum_stats(_, _)
\* summary[k] += stats[k] over the analysed files
sum_stats(stats, k) ==
    IF stats = <<>> THEN 0 ELSE Head(stats)[k] + sum_stats(Tail(stats), k)

\* the modules dict: every module string of a file that parses, in the set
\* of the first cascade branch that takes it
html_modules(files, paths, root, locals) ==
    LET strings == UNION { DictKeys(map_parse_imports(files[relative_to(paths[i], root)])) :
                            i \in { j \in DOMAIN paths :
                                ~ map_parse_imports_raises(
                                      files[relative_to(paths[j], root)]) } }
    IN [g \in GroupNames |-> { m \in strings : GroupOf(m, locals) = g }]

ht_tests_a ==
    Text(Src(<<OtherNode("Module"), imp(join(<<s_tests, s_a>>))>>),
         <<"i", "m", "p", "o", "r", "t", " ", "t", "e", "s", "t", "s", ".", "a", NL>>)
ht_venv_a ==
    Text(Src(<<OtherNode("Module"), imp(join(<<s_venvdir, s_a>>))>>),
         <<"i", "m", "p", "o", "r", "t", " ", "v", "e", "n", "v", ".", "a", NL>>)

HtmlFilePool == {f_a, f_b, f_tests, f_venv_a}

HtmlSources(f) ==
    IF f = f_a THEN {st_mixed, st_broken}
    ELSE IF f = f_b THEN {ht_tests_a, ht_venv_a, st_latin1}
    ELSE IF f = f_tests THEN {st_empty}
    ELSE {st_small}

HtmlProjects ==
    UNION { { p \in [D -> UNION { HtmlSources(f) : f \in D }] :
                \A f \in D : p[f] \in HtmlSources(f) } :
            D \in { D \in SUBSET HtmlFilePool : Cardinality(D) <= MaxFiles } }

InitHtml ==
    /\ pc = "html_find"
    /\ fs \in HtmlProjects
    /\ py_files = <<>>
    /\ tree = <<>>
    /\ local_modules = {}
    /\ idx = 0
    /\ mod = <<>>
    /\ root_node = <<>>
    /\ added_nodes = {}
    /\ dot_body = <<>>
    /\ md = <<>>
    /\ node = ImportNode(<<>>)
    /\ module = <<>>
    /\ mcolor = None
    /\ groups = EmptyGroups
    /\ StatsIdle
    /\ CliIdle

\* gather_statistics: py_files = find_py_files(root), in the order rglob
\* yields them; an empty dict is returned when there is none
HtmlFindPyFiles ==
    /\ pc = "html_find"
    /\ py_files' \in Perms(stats_find_py_files(fs, Root))
    /\ pc' = IF py_files' = <<>> THEN "html_empty" ELSE "html_gather"
    /\ UNCHANGED <<fs, tree, idx, mod, root_node, added_nodes, dot_body, md,
                   local_modules, classifier_vars, stats_vars, cli_vars>>

\* gather_statistics: the summary and the per-file rows, then the local
\* module index and the modules of the three groups
HtmlGather ==
    /\ pc = "html_gather"
    /\ LET stats == [i \in DOMAIN py_files |->
                        analyze_file(fs[relative_to(py_files[i], Root)])]
           locals == collect_local_modules(py_files, Root)
           modules == html_modules(fs, py_files, Root, locals)
       IN /\ tree' = [i \in DOMAIN py_files |->
                         [file |-> path_str(relative_to(py_files[i], Root)),
                          lines |-> stats[i].lines,
                          functions |-> stats[i].defs,
                          classes |-> stats[i].classes]]
          /\ local_modules' = locals
          /\ groups' = modules
          /\ total' = [files |-> Len(py_files),
                       total_lines |-> sum_stats(stats, "lines"),
                       blank_lines |-> sum_stats(stats, "blank"),
                       comment_lines |-> sum_stats(stats, "comments"),
                       defs |-> sum_stats(stats, "defs"),
                       classes |-> sum_stats(stats, "classes"),
                       imports |-> sum_stats(stats, "imports"),
                       from_imports |-> sum_stats(stats, "from_imports"),
                       total_imports |->
                           Cardinality(modules["stdlib"])
                               + Cardinality(modules["external"])
                               + Cardinality(modules["local"])]
    /\ pc' = "html_gathered"
    /\ UNCHANGED <<fs, py_files, idx, mod, root_node, added_nodes, dot_body,
                   md, node, module, mcolor, args, longest_file,
                   longest_lines, report, out, cli_vars>>

NextHtml == HtmlFindPyFiles \/ HtmlGather

SpecHtml == InitHtml /\ [][NextHtml]_vars

(***************************************************************************)
(* Properties of the agreement between the tools                           *)
(***************************************************************************)
\* the index the graph builder and the grouped listing build for the tree
BuilderIndex ==
    { module_name(path, Root) : path \in find_py_files(fs, Root) } \ {<<>>}
ListingIndex ==
    { module_name(path, Root) : path \in map_find_py_files(fs, Root) } \ {<<>>}

\* the group a node colour of the graph stands for
ColorGroup(color) ==
    IF color = "blue" THEN "local"
    ELSE IF color = "gray" THEN "stdlib"
    ELSE "external"

\* C22: for one file tree the HTML report works from the same discovered
\* file set and the same local module index as the graph builder and the
\* grouped listing, and each module string it groups is given the same
\* classification by the other two tools.
C22_SameClassification ==
    pc = "html_gathered" =>
        /\ Range(py_files) = find_py_files(fs, Root)
        /\ Range(py_files) = map_find_py_files(fs, Root)
        /\ local_modules = BuilderIndex
        /\ local_modules = ListingIndex
        /\ \A g \in GroupNames : \A m \in groups[g] :
               /\ ColorGroup(ModuleColor(m, BuilderIndex)) = g
               /\ GroupOf(m, ListingIndex) = g

(***************************************************************************)
(* Properties of the graph under the processing orders                     *)
(***************************************************************************)
\* the statements the graph-building loop emits for the tree of the run
\* when its files are taken in sorted order
RECURSIVE graph_of(_, _, _)
graph_of(keys, added, body) ==
    IF keys = <<>> THEN body
    ELSE LET file_path == Head(keys)
             color == IF file_path = root_node THEN "red" ELSE "lightblue"
             body1 == IF file_path \notin added
                      THEN Append(body, NodeStmt(file_path, "box", color))
                      ELSE body
             r == module_loop(file_path, sorted(DictGet(tree, file_path)),
                              local_modules, added \cup {file_path}, body1)
         IN graph_of(Tail(keys), r.added, r.body)

SortedGraph == graph_of(tree_order(tree), {}, <<>>)

NodesOf(body) == { body[i] : i \in { j \in DOMAIN body : body[j].stmt = "node" } }
EdgesOf(body) == { body[i] : i \in { j \in DOMAIN body : body[j].stmt = "edge" } }

\* C23: the nodes of the graph, each with its kind and its display
\* attributes, and the edges of the graph are the same for every order in
\* which the files are processed, also when the relative path of a file is
\* the module string of an import.
C23_GraphOrderIndependent ==
    pc = "rendered" =>
        /\ NodesOf(dot_body) = NodesOf(SortedGraph)
        /\ EdgesOf(dot_body) = EdgesOf(SortedGraph)

====
